---- MODULE Spec2Model ----
(***************************************************************************)
(* The frame-update core of the jumping-kangaroo scene: the Kangaroo jump  *)
(* simulator with its auto-jump interval (React state + refs + effect),    *)
(* the Hills and Clouds parallax scrollers, and the Hills terrain          *)
(* generation and render.  Two versions of the scene are in the            *)
(* repository (src/unnamed/part_000 and src/app/index.tsx); they differ in *)
(* their constants only, and `variant` selects one.                        *)
(*                                                                         *)
(* Numbers.  The code computes in IEEE doubles; the model computes exactly *)
(* in fixed point.  A frame's delta is n/Den seconds (n a natural number), *)
(* a velocity v is held as v*Den and a position p as p*Den*Den, so that    *)
(* v += gravity*delta and p += v*delta are integer operations.             *)
(***************************************************************************)
EXTENDS Integers, Sequences, FiniteSets

VARIABLES
    variant,        \* which version of the scene: "part_000" or "index"
    \* ---- Kangaroo ----
    mounted,        \* kangarooRef.current is set (component mounted)
    isJumping,      \* useState value of the committed render (what closures see)
    queued,         \* value the pending setIsJumping updates will commit
    velocityY,      \* velocityY.current * Den
    positionY,      \* positionY.current * Den * Den
    timers,         \* the host's interval table: id -> interval record
    jumpInterval,   \* id held by the effect's cleanup closure, 0 when none
    effectPending,  \* the [isJumping] effect is scheduled and has not run
    fired,          \* an interval callback has run since mount
    sinceFire,      \* time (units of 1/Den s) since the last callback ran
    lastOp,         \* the step that produced this state
    lastDt,         \* the delta of that step when it is a frame, else 0
    \* ---- Hills / Clouds ----
    hillsData,      \* hillsData.current
    hillsMeshes,    \* the <mesh> children the committed render produced
    hillsReady,     \* the one-time generation effect has run
    hillsRefX,      \* hillsRef.current.position.x * Den
    cloudsRefX,     \* cloudsRef.current.position.x * 2 * Den
    \* ---- scroll wrap scenario (dt = 1/30) ----
    wrapX,          \* offsetX * ScenarioFps
    wrapTicks,      \* ticks run
    wrapResets      \* how many of them reset the offset

kvars == <<mounted, isJumping, queued, velocityY, positionY, timers,
           jumpInterval, effectPending, fired, sinceFire, lastOp, lastDt>>
hvars == <<hillsData, hillsMeshes, hillsReady, hillsRefX, cloudsRefX>>
wvars == <<wrapX, wrapTicks, wrapResets>>
vars  == <<variant, kvars, hvars, wvars>>

Variants == {"part_000", "index"}

----------------------------------------------------------------------------
(* Bounds of the model *)

MaxDt == 3          \* a frame's delta is 0..MaxDt units of 1/Den s
MaxTimers == 2      \* size of the host's interval table
MaxSeed == 3        \* Math.random() streams tried by the generation
MaxTicks == 250     \* length of the scroll wrap scenario
ScenarioFps == 30   \* the scroll wrap scenario's frame rate (dt = 1/30)

(* Time resolution: one unit is 200 ms, the greatest common divisor of the *)
(* two intervals (2000 ms and 1800 ms), so Den = 5 units per second.  A    *)
(* delta of MaxDt units (0.6 s) is longer than jumpForce/|gravity| in both  *)
(* versions (8/15 s and 9/20 s).                                            *)
Den == 1000 \div 200

----------------------------------------------------------------------------
(* Kangaroo constants *)

gravity     == IF variant = "part_000" THEN 0 - 15 ELSE 0 - 20
jumpForce   == IF variant = "part_000" THEN 8 ELSE 9
groundLevel == 0
intervalMs  == IF variant = "part_000" THEN 2000 ELSE 1800

Interval == (intervalMs * Den) \div 1000    \* the interval in time units
JumpV    == jumpForce * Den                 \* jumpForce as a stored velocity
GroundY  == groundLevel * Den * Den         \* groundLevel as a stored position

----------------------------------------------------------------------------
(* The host's timers: setInterval / clearInterval *)

TimerIds == 1..MaxTimers
NoTimer  == [active |-> FALSE, isJumping |-> FALSE, left |-> 0]

ActiveTimers(ts) == {id \in TimerIds : ts[id].active}

\* setInterval(cb, ms): a new interval whose callback closes over the
\* isJumping of the render that ran the effect.
SetInterval(ts, id, closure) ==
    [ts EXCEPT ![id] = [active |-> TRUE, isJumping |-> closure, left |-> Interval]]

\* A cleanup that leaves the interval running.
ClearIntervalLeak(ts, id) == ts

\* clearInterval(id)
ClearInterval(ts, id) ==
    IF id \in TimerIds THEN [ts EXCEPT ![id] = NoTimer] ELSE ts

FreeIds(ts) == TimerIds \ ActiveTimers(ts)

\* One run of the [isJumping] effect for a render whose isJumping is
\* `closure`: the previous run's cleanup, then a new interval.  Yields the
\* new table and the new handle.
EffectRun(ts, handle, closure) ==
    LET cleared == ClearInterval(ts, handle)
        id      == CHOOSE i \in FreeIds(cleared) : \A j \in FreeIds(cleared) : i <= j
    IN  [timers |-> SetInterval(cleared, id, closure), jumpInterval |-> id]

CanRunEffect(ts, handle) == FreeIds(ClearInterval(ts, handle)) # {}

----------------------------------------------------------------------------
(* The jump simulator's arithmetic *)

\* Gravity applied with the wrong sign.
StepVelocityWrongSign(v, n) == v - gravity * n

\* velocityY.current += gravity * delta
StepVelocity(v, n) == v + gravity * n

\* positionY.current += velocityY.current * delta   (v already stepped)
StepPosition(p, v1, n) == p + v1 * n

\* if (positionY.current <= groundLevel)
Landed(p1) == p1 <= GroundY

\* A landing that does not clamp the position.
LandYUnclamped(p1) == p1

\* positionY.current after the landing test
LandY(p1) == IF Landed(p1) THEN GroundY ELSE p1

\* A landing that keeps the falling velocity.
LandVKeepsVelocity(p1, v1) == v1

\* velocityY.current after the landing test
LandV(p1, v1) == IF Landed(p1) THEN 0 ELSE v1

\* The callback's guard inverted.
CallbackJumpsInverted(closure) == closure

\* if (!isJumping) in the interval callback, on the captured isJumping
CallbackJumps(closure) == ~closure

----------------------------------------------------------------------------
(* Hills and Clouds: constants, terrain generation, render, scroll step *)

hillCount     == IF variant = "part_000" THEN 20 ELSE 30
hillSpacing   == IF variant = "part_000" THEN 8 ELSE 6
hillOffset    == IF variant = "part_000" THEN 0 - 40 ELSE 0 - 60
hillsSpeed    == IF variant = "part_000" THEN 5 ELSE 3
hillsWrap     == IF variant = "part_000" THEN 40 ELSE 60
cloudsSpeed2  == IF variant = "part_000" THEN 4 ELSE 3     \* twice the speed (2, 1.5)
cloudsWrap    == IF variant = "part_000" THEN 50 ELSE 60

\* Math.random(): the k-th draw of stream `seed`, as a numerator over
\* RandDen (a value in [0, 1)).
RandDen == MaxSeed + 1
Random(seed, k) == (seed + k * k + 3 * k) % RandDen

\* One generated hill: x is exact, z, height and width are numerators over
\* RandDen (z = random*10 - 5 in part_000, random*8 - 4 in index, ...).
Hill(seed, i) ==
    LET r1 == Random(seed, 3 * i)
        r2 == Random(seed, 3 * i + 1)
        r3 == Random(seed, 3 * i + 2)
    IN  IF variant = "part_000"
        THEN [x      |-> i * hillSpacing + hillOffset,
              z      |-> r1 * 10 - 5 * RandDen,
              height |-> r2 * 3 + 2 * RandDen,
              width  |-> r3 * 5 + 4 * RandDen]
        ELSE [x      |-> i * hillSpacing + hillOffset,
              z      |-> r1 * 8 - 4 * RandDen,
              height |-> (r2 * 4 + 3 * RandDen),       \* random*2 + 1.5, doubled
              width  |-> r3 * 4 + 6 * RandDen]

\* The loop of the generation effect: hills 0 .. hillCount-1, in order.
GenerateHills(seed) == [k \in 1..hillCount |-> Hill(seed, k - 1)]

\* The render's hillsData.current.map(...): one <mesh> per element, at
\* [hill.x, y, hill.z]; y is -hill.height/2 (part_000, held doubled) or -2.
RenderHills(data) ==
    [k \in 1..Len(data) |->
        [key |-> k - 1,
         x   |-> data[k].x,
         y   |-> IF variant = "part_000" THEN 0 - data[k].height
                                           ELSE 0 - 2 * 2 * RandDen,
         z   |-> data[k].z]]

\* A reset test that is not strict.
ScrollResetsAtThreshold(x1, limit) == x1 <= 0 - limit

\* if (ref.current.position.x < -limit)
ScrollResets(x1, limit) == x1 < 0 - limit

\* position.x -= delta * speed, then the reset; `step` is delta*speed and
\* `limit` the wrap distance, both in the units of x.
ScrollStep(x, step, limit) ==
    IF ScrollResets(x - step, limit) THEN 0 ELSE x - step

----------------------------------------------------------------------------
(* Initial state: the scene has mounted and committed its first render     *)
(* (the Hills rendered from the still empty hillsData.current); no effect  *)
(* has run yet.                                                            *)

KangarooFresh ==
    /\ isJumping = FALSE
    /\ queued = FALSE
    /\ velocityY = 0
    /\ positionY = 0
    /\ jumpInterval = 0
    /\ effectPending = TRUE
    /\ fired = FALSE
    /\ sinceFire = 0

Init ==
    /\ variant \in Variants
    /\ mounted = TRUE
    /\ KangarooFresh
    /\ timers = [id \in TimerIds |-> NoTimer]
    /\ lastOp = "Mount"
    /\ lastDt = 0
    /\ hillsData = <<>>
    /\ hillsMeshes = RenderHills(hillsData)
    /\ hillsReady = FALSE
    /\ hillsRefX = 0
    /\ cloudsRefX = 0
    /\ wrapX = 0
    /\ wrapTicks = 0
    /\ wrapResets = 0

----------------------------------------------------------------------------
(* Kangaroo actions *)

\* The passive effect of the last commit runs (useEffect, deps [isJumping]).
RunEffect ==
    /\ mounted
    /\ effectPending
    /\ CanRunEffect(timers, jumpInterval)
    /\ LET r == EffectRun(timers, jumpInterval, isJumping)
       IN  /\ timers' = r.timers
           /\ jumpInterval' = r.jumpInterval
    /\ effectPending' = FALSE
    /\ lastOp' = "RunEffect"
    /\ lastDt' = 0
    /\ UNCHANGED <<mounted, isJumping, queued, velocityY, positionY, fired,
                   sinceFire>>
    /\ UNCHANGED <<variant, hvars, wvars>>

\* The interval callback of timer `id` runs.
Fire(id) ==
    /\ timers[id].active
    /\ timers[id].left = 0
    /\ IF CallbackJumps(timers[id].isJumping)
       THEN /\ queued' = (IF mounted THEN TRUE ELSE queued)
            /\ velocityY' = JumpV
       ELSE UNCHANGED <<queued, velocityY>>
    /\ timers' = [timers EXCEPT ![id].left = Interval]
    /\ fired' = TRUE
    /\ sinceFire' = 0
    /\ lastOp' = "Fire"
    /\ lastDt' = 0
    /\ UNCHANGED <<mounted, isJumping, positionY, jumpInterval, effectPending>>
    /\ UNCHANGED <<variant, hvars, wvars>>

\* React renders the queued state update and commits it.  A passive effect
\* still pending from the previous commit is flushed first; the commit
\* re-subscribes the frame callback and schedules the effect again.
Commit ==
    /\ mounted
    /\ queued # isJumping
    /\ effectPending => CanRunEffect(timers, jumpInterval)
    /\ LET r == IF effectPending
                THEN EffectRun(timers, jumpInterval, isJumping)
                ELSE [timers |-> timers, jumpInterval |-> jumpInterval]
       IN  /\ timers' = r.timers
           /\ jumpInterval' = r.jumpInterval
    /\ isJumping' = queued
    /\ effectPending' = TRUE
    /\ lastOp' = "Commit"
    /\ lastDt' = 0
    /\ UNCHANGED <<mounted, queued, velocityY, positionY, fired, sinceFire>>
    /\ UNCHANGED <<variant, hvars, wvars>>

\* One frame of the render loop, delta = n/Den seconds after the previous
\* one: due interval callbacks have run, and the Kangaroo's useFrame
\* callback runs if the component is mounted.
Frame(n) ==
    /\ \A id \in ActiveTimers(timers) : timers[id].left >= n
    /\ timers' = [id \in TimerIds |->
                    IF timers[id].active
                    THEN [timers[id] EXCEPT !.left = @ - n]
                    ELSE timers[id]]
    /\ sinceFire' = IF fired THEN sinceFire + n ELSE 0
    /\ IF mounted /\ isJumping
       THEN LET v1 == StepVelocity(velocityY, n)
                p1 == StepPosition(positionY, v1, n)
            IN  /\ positionY' = LandY(p1)
                /\ velocityY' = LandV(p1, v1)
                /\ queued' = (IF Landed(p1) THEN FALSE ELSE queued)
       ELSE UNCHANGED <<positionY, velocityY, queued>>
    /\ lastOp' = "Frame"
    /\ lastDt' = n
    /\ UNCHANGED <<mounted, isJumping, jumpInterval, effectPending, fired>>
    /\ UNCHANGED <<variant, hvars, wvars>>

\* The scene is torn down: the effect's cleanup runs and the component's
\* state and refs are dropped.
Unmount ==
    /\ mounted
    /\ mounted' = FALSE
    /\ timers' = ClearInterval(timers, jumpInterval)
    /\ isJumping' = FALSE
    /\ queued' = FALSE
    /\ velocityY' = 0
    /\ positionY' = 0
    /\ jumpInterval' = 0
    /\ effectPending' = FALSE
    /\ fired' = FALSE
    /\ sinceFire' = 0
    /\ lastOp' = "Unmount"
    /\ lastDt' = 0
    /\ UNCHANGED <<variant, hvars, wvars>>

\* The scene is mounted again: useState(false), useRef(0), first commit.
Mount ==
    /\ ~mounted
    /\ mounted' = TRUE
    /\ isJumping' = FALSE
    /\ queued' = FALSE
    /\ velocityY' = 0
    /\ positionY' = 0
    /\ jumpInterval' = 0
    /\ effectPending' = TRUE
    /\ fired' = FALSE
    /\ sinceFire' = 0
    /\ lastOp' = "Mount"
    /\ lastDt' = 0
    /\ UNCHANGED timers
    /\ UNCHANGED <<variant, hvars, wvars>>

Next ==
    \/ RunEffect
    \/ \E id \in TimerIds : Fire(id)
    \/ Commit
    \/ \E n \in 0..MaxDt : Frame(n)
    \/ Unmount
    \/ Mount

Spec == Init /\ [][Next]_vars

----------------------------------------------------------------------------
(* Properties of the Kangaroo *)

Grounded == mounted /\ ~isJumping
Airborne == mounted /\ isJumping

\* The step into this state was a frame of delta > 0 / = 0 run by a mounted
\* Kangaroo whose frame callback saw isJumping = true.
AirborneTick == lastOp' = "Frame" /\ mounted /\ isJumping

\* C1 as claimed: whenever isJumping (the committed React state) is false,
\* positionY == groundLevel and velocityY == 0.
C1_Original ==
    ~isJumping => (positionY = GroundY /\ velocityY = 0)

\* C1 amended: whenever the isJumping value last requested through
\* setIsJumping (committed or still queued) is false, positionY ==
\* groundLevel and velocityY == 0.
C1_QueuedInvariant ==
    ~queued => (positionY = GroundY /\ velocityY = 0)

\* The jump has landed and the landing is not committed yet: isJumping is
\* still true while the requested value is false.
C1_Witness ==
    /\ mounted /\ isJumping /\ ~queued
    /\ lastOp = "Frame" /\ lastDt > 0
    /\ positionY = GroundY /\ velocityY = 0

\* C2 as claimed: a frame with dt = 0 changes no Kangaroo state.
C2_Original ==
    [][(lastOp' = "Frame" /\ lastDt' = 0)
        => UNCHANGED <<isJumping, queued, velocityY, positionY>>]_vars

\* C3 as claimed: an interval callback that runs while the committed
\* isJumping is true changes neither velocityY, positionY nor isJumping
\* (committed or queued).
C3_Original ==
    [][(lastOp' = "Fire" /\ mounted /\ isJumping)
        => UNCHANGED <<velocityY, positionY, isJumping, queued>>]_vars

\* C4 as claimed: the time between two consecutive runs of the interval
\* callback equals the interval.
C4_Original ==
    [][(lastOp' = "Fire" /\ fired) => sinceFire = Interval]_vars

\* C5: once the Kangaroo is torn down no auto-jump interval is active, and
\* while it is mounted the only active interval is the one its effect holds.
C5_NoDanglingTimers ==
    /\ ~mounted => ActiveTimers(timers) = {}
    /\ mounted => ActiveTimers(timers) \subseteq {jumpInterval}

\* The scene has just been torn down.
C5_Witness ==
    ~mounted /\ lastOp = "Unmount" /\ ActiveTimers(timers) = {}

\* C6 as claimed: on every Airborne tick with dt > 0 that leaves the
\* character in the air velocityY strictly decreases, and positionY rises
\* strictly on the first tick of a jump (it increases for one or more ticks
\* before it decreases).
C6_Original ==
    [][(AirborneTick /\ lastDt' > 0)
        => /\ (positionY' > GroundY => velocityY' < velocityY)
           /\ (positionY = GroundY /\ velocityY = JumpV
                  => positionY' > positionY)]_vars

\* C6 amended: an Airborne tick with dt > 0 either lands (positionY exactly
\* groundLevel, velocityY 0, isJumping requested false), or strictly
\* decreases velocityY, keeps positionY above groundLevel and moves it
\* strictly up when the new velocityY is positive and strictly down when it
\* is negative.
C6_TickLaw ==
    [][(AirborneTick /\ lastDt' > 0)
        => \/ /\ positionY' = GroundY
              /\ velocityY' = 0
              /\ queued' = FALSE
           \/ /\ velocityY' < velocityY
              /\ positionY' > GroundY
              /\ (velocityY' > 0 => positionY' > positionY)
              /\ (velocityY' < 0 => positionY' < positionY)
              /\ UNCHANGED queued]_vars

\* The character is in the air, past the apex, after a tick.
C6_Witness ==
    /\ mounted /\ isJumping /\ queued
    /\ lastOp = "Frame" /\ lastDt > 0
    /\ velocityY < 0 /\ positionY > GroundY

\* C8: positionY >= groundLevel in every state.
C8_NeverBelowGround ==
    positionY >= GroundY

\* A tick of the largest delta has just landed the character.
C8_Witness ==
    /\ mounted /\ isJumping /\ ~queued
    /\ lastOp = "Frame" /\ lastDt = MaxDt
    /\ positionY = GroundY

----------------------------------------------------------------------------
(* The mounted scene under fair scheduling: the host runs a due interval   *)
(* callback, React commits a queued update and flushes a scheduled effect, *)
(* and the render loop keeps producing frames with a positive delta.       *)

LiveNext ==
    \/ RunEffect
    \/ \E id \in TimerIds : Fire(id)
    \/ Commit
    \/ \E n \in 0..MaxDt : Frame(n)

LiveSpec ==
    /\ Init
    /\ [][LiveNext]_vars
    /\ WF_vars(RunEffect)
    /\ WF_vars(Commit)
    /\ WF_vars(\E id \in TimerIds : Fire(id))
    /\ WF_vars(\E n \in 1..MaxDt : Frame(n))

\* C9: while the scene is mounted every Grounded state is eventually
\* followed by an Airborne state and every Airborne state by a Grounded one.
C9_CyclesForever ==
    /\ Grounded ~> Airborne
    /\ Airborne ~> Grounded

\* The machine has gone round once: a callback has run since mount, and
\* the character is Grounded again with the landing committed and the
\* interval restarted for it.
C9_Witness ==
    /\ Grounded /\ fired /\ ~queued /\ ~effectPending
    /\ lastOp = "RunEffect"
    /\ positionY = GroundY /\ velocityY = 0

----------------------------------------------------------------------------
(* Hills and Clouds: actions *)

\* The Hills' one-time effect (deps []): fills hillsData.current.  Nothing
\* re-renders the component afterwards: it has no state, props or context.
HillsEffect(seed) ==
    /\ ~hillsReady
    /\ hillsData' = GenerateHills(seed)
    /\ hillsReady' = TRUE
    /\ UNCHANGED <<hillsMeshes, hillsRefX, cloudsRefX>>
    /\ UNCHANGED <<variant, kvars, wvars>>

\* One frame of the render loop for the scrollers: the Hills' and the
\* Clouds' useFrame callbacks, both with delta = n/Den.
ScrollFrame(n) ==
    /\ hillsRefX' = ScrollStep(hillsRefX, hillsSpeed * n, hillsWrap * Den)
    /\ cloudsRefX' = ScrollStep(cloudsRefX, cloudsSpeed2 * n, cloudsWrap * 2 * Den)
    /\ UNCHANGED <<hillsData, hillsMeshes, hillsReady>>
    /\ UNCHANGED <<variant, kvars, wvars>>

HillsNext ==
    \/ \E seed \in 0..MaxSeed : HillsEffect(seed)
    \/ \E n \in 0..MaxDt : ScrollFrame(n)

HillsSpec == Init /\ [][HillsNext]_vars

\* C10 as claimed: once the Hills have initialized, the rendered group holds
\* one mesh per generated feature, at that feature's x and z.
C10_Original ==
    hillsReady =>
        /\ Len(hillsMeshes) = hillCount
        /\ Len(hillsData) = hillCount
        /\ \A k \in 1..Len(hillsMeshes) :
              /\ hillsMeshes[k].x = hillsData[k].x
              /\ hillsMeshes[k].z = hillsData[k].z

----------------------------------------------------------------------------
(* The scroll wrap scenario: the part_000 Hills scroller (speed 5, wrap    *)
(* distance 40, reset to 0) ticked from 0 with a constant dt = 1/30 s.     *)

ScenarioSpeed == 5
ScenarioWrap  == 40

\* wrapThreshold / (speed * dt)
ScenarioTicks == (ScenarioWrap * ScenarioFps) \div ScenarioSpeed

WrapTick ==
    /\ wrapTicks < MaxTicks
    /\ wrapX' = ScrollStep(wrapX, ScenarioSpeed, ScenarioWrap * ScenarioFps)
    /\ wrapResets' = wrapResets
                       + (IF ScrollResets(wrapX - ScenarioSpeed,
                                          ScenarioWrap * ScenarioFps)
                          THEN 1 ELSE 0)
    /\ wrapTicks' = wrapTicks + 1
    /\ UNCHANGED <<variant, kvars, hvars>>

WrapSpec == Init /\ [][WrapTick]_vars

\* C7 as claimed: after wrapThreshold/(speed*dt) ticks the offset has reset
\* to 0, exactly once.
C7_Original ==
    wrapTicks = ScenarioTicks => (wrapResets = 1 /\ wrapX = 0)

\* C7 amended: no reset happens in the first wrapThreshold/(speed*dt) ticks
\* (after the last of them the offset is exactly -wrapThreshold); the
\* offset resets to 0 on the next tick, and that is the only reset up to it.
C7_ResetsOneTickLater ==
    /\ wrapTicks <= ScenarioTicks
          => (wrapResets = 0 /\ wrapX = 0 - ScenarioSpeed * wrapTicks)
    /\ wrapTicks = ScenarioTicks + 1 => (wrapResets = 1 /\ wrapX = 0)

\* The tick after wrapThreshold/(speed*dt) has run and reset the offset.
C7_Witness ==
    wrapTicks = ScenarioTicks + 1 /\ wrapResets = 1 /\ wrapX = 0

====
